---------------------------- MODULE Spec2Model ----------------------------
(***************************************************************************)
(* Model of fasta_processor.py: the FASTA record transducer process_fasta, *)
(* its helper wrap_sequence and the command-line entry point main.         *)
(*                                                                         *)
(* A Python str is a sequence of one-character strings.  The input file is *)
(* a sequence of raw lines (each ending in "\n"), read one per loop        *)
(* iteration; the output file is the sequence of characters written.       *)
(***************************************************************************)
EXTENDS Integers, Sequences, FiniteSets, TLC

(***************************************************************************)
(* Bounds of the model.                                                    *)
(***************************************************************************)
\* Longest input file, in lines.
MaxLines == 4
\* Longest string and largest width handed to wrap_sequence in SpecWrap.
MaxWrapLen == 4
MaxWrapWidth == 4

(***************************************************************************)
(* The two hardcoded sequences of process_fasta.                           *)
(***************************************************************************)
egfp_sequence ==
  <<
     "A","T","G","G","T","G","A","G","C","A","A","G","G","G","C","G","A","G","G","A",
     "G","C","T","G","T","T","C","A","C","C","G","G","G","G","T","G","G","T","G","C",
     "C","C","A","T","C","C","T","G","G","T","C","G","A","G","C","T","G","G","A","C",
     "G","G","C","G","A","C","G","T","A","A","A","C","G","G","C","C","A","C","A","A",
     "G","T","T","C","A","G","C","G","T","G","T","C","C","G","G","C","G","A","G","G",
     "G","C","G","A","G","G","G","C","G","A","T","G","C","C","A","C","C","T","A","C",
     "G","G","C","A","A","G","C","T","G","A","C","C","C","T","G","A","A","G","T","T",
     "C","A","T","C","T","G","C","A","C","C","A","C","C","G","G","C","A","A","G","C",
     "T","G","C","C","C","G","T","G","C","C","C","T","G","G","C","C","C","A","C","C",
     "C","T","C","G","T","G","A","C","C","A","C","C","C","T","G","A","C","C","T","A",
     "C","G","G","C","G","T","G","C","A","G","T","G","C","T","T","C","A","G","C","C",
     "G","C","T","A","C","C","C","C","G","A","C","C","A","C","A","T","G","A","A","G",
     "C","A","G","C","A","C","G","A","C","T","T","C","T","T","C","A","A","G","T","C",
     "C","G","C","C","A","T","G","C","C","C","G","A","A","G","G","C","T","A","C","G",
     "T","C","C","A","G","G","A","G","C","G","C","A","C","C","A","T","C","T","T","C",
     "T","T","C","A","A","G","G","A","C","G","A","C","G","G","C","A","A","C","T","A",
     "C","A","A","G","A","C","C","C","G","C","G","C","C","G","A","G","G","T","G","A",
     "A","G","T","T","C","G","A","G","G","G","C","G","A","C","A","C","C","C","T","G",
     "G","T","G","A","A","C","C","G","C","A","T","C","G","A","G","C","T","G","A","A",
     "G","G","G","C","A","T","C","G","A","C","T","T","C","A","A","G","G","A","G","G",
     "A","C","G","G","C","A","A","C","A","T","C","C","T","G","G","G","G","C","A","C",
     "A","A","G","C","T","G","G","A","G","T","A","C","A","A","C","T","A","C","A","A",
     "C","A","G","C","C","A","C","A","A","C","G","T","C","T","A","T","A","T","C","A",
     "T","G","G","C","C","G","A","C","A","A","G","C","A","G","A","A","G","A","A","C",
     "G","G","C","A","T","C","A","A","G","G","T","G","A","A","C","T","T","C","A","A",
     "G","A","T","C","C","G","C","C","A","C","A","A","C","A","T","C","G","A","G","G",
     "A","C","G","G","C","A","G","C","G","T","G","C","A","G","C","T","C","G","C","C",
     "G","A","C","C","A","C","T","A","C","C","A","G","C","A","G","A","A","C","A","C",
     "C","C","C","C","A","T","C","G","G","C","G","A","C","G","G","C","C","C","C","G",
     "T","G","C","T","G","C","T","G","C","C","C","G","A","C","A","A","C","C","A","C",
     "T","A","C","C","T","G","A","G","C","A","C","C","C","A","G","T","C","C","G","C",
     "C","C","T","G","A","G","C","A","A","A","G","A","C","C","C","C","A","A","C","G",
     "A","G","A","A","G","C","G","C","G","A","T","C","A","C","A","T","G","G","T","C",
     "C","T","G","C","T","G","G","A","G","T","T","C","G","T","G","A","C","C","G","C",
     "C","G","C","C","G","G","G","A","T","C","A","C","T","C","T","C","G","G","C","A",
     "T","G","G","A","C","G","A","G","C","T","G","T","A","C","A","A","G"
  >>

mcherry_sequence ==
  <<
     "A","T","G","G","T","G","A","G","C","A","A","G","G","G","C","G","A","G","G","A",
     "G","G","A","T","A","A","C","A","T","G","G","C","C","A","T","C","A","T","C","A",
     "A","G","G","A","G","T","T","C","A","T","G","C","G","C","T","T","C","A","A","G",
     "G","T","G","C","A","C","A","T","G","G","A","G","G","G","C","T","C","C","G","T",
     "G","A","A","C","G","G","C","C","A","C","G","A","G","T","T","C","G","A","G","A",
     "T","C","G","A","G","G","G","C","G","A","G","G","G","C","G","A","G","G","G","C",
     "C","G","C","C","C","C","T","A","C","G","A","G","G","G","C","A","C","C","C","A",
     "G","A","C","C","G","C","C","A","A","G","C","T","G","A","A","G","G","T","G","A",
     "C","C","A","A","G","G","G","T","G","G","C","C","C","C","C","T","G","C","C","C",
     "T","T","C","G","C","C","T","G","G","G","A","C","A","T","C","C","T","G","T","C",
     "C","C","C","T","C","A","G","T","T","C","A","T","G","T","A","C","G","G","C","T",
     "C","C","A","A","G","G","C","C","T","A","C","G","T","G","A","A","G","C","A","C",
     "C","C","C","G","C","C","G","A","C","A","T","C","C","C","C","G","A","C","T","A",
     "C","T","T","G","A","A","G","C","T","G","T","C","C","T","T","C","C","C","C","G",
     "A","G","G","G","C","T","T","C","A","A","G","T","G","G","G","A","G","C","G","C",
     "G","T","G","A","T","G","A","A","C","T","T","C","G","A","G","G","A","C","G","G",
     "C","G","G","C","G","T","G","G","T","G","A","C","C","G","T","G","A","C","C","C",
     "A","G","G","A","C","T","C","C","T","C","C","C","T","G","C","A","G","G","A","C",
     "G","G","C","G","A","G","T","T","C","A","T","C","T","A","C","A","A","G","G","T",
     "G","A","A","G","C","T","G","C","G","C","G","G","C","A","C","C","A","A","C","T",
     "T","C","C","C","C","T","C","C","G","A","C","G","G","C","C","C","C","G","T","A",
     "A","T","G","C","A","G","A","A","G","A","A","G","A","C","C","A","T","G","G","G",
     "C","T","G","G","G","A","G","G","C","C","T","C","C","T","C","C","G","A","G","C",
     "G","G","A","T","G","T","A","C","C","C","C","G","A","G","G","A","C","G","G","C",
     "G","C","C","C","T","G","A","A","G","G","G","C","G","A","G","A","T","C","A","A",
     "G","C","A","G","A","G","G","C","T","G","A","A","G","C","T","G","A","A","G","G",
     "A","C","G","G","C","G","G","C","C","A","C","T","A","C","G","A","C","G","C","T",
     "G","A","G","G","T","C","A","A","G","A","C","C","A","C","C","T","A","C","A","A",
     "G","G","C","C","A","A","G","A","A","G","C","C","C","G","T","G","C","A","G","C",
     "T","G","C","C","C","G","G","C","G","C","C","T","A","C","A","A","C","G","T","C",
     "A","A","C","A","T","C","A","A","G","T","T","G","G","A","C","A","T","C","A","C",
     "C","T","C","C","C","A","C","A","A","C","G","A","G","G","A","C","T","A","C","A",
     "C","C","A","T","C","G","T","G","G","A","A","C","A","G","T","A","C","G","A","A",
     "C","G","C","G","C","C","G","A","G","G","G","C","C","G","C","C","A","C","T","C",
     "C","A","C","C","G","G","C","G","G","C","A","T","G","G","A","C","G","A","G","C",
     "T","G","T","A","C","A","A","G"
  >>

\* Python's None where a str is expected, distinct from every str.
None == <<"None">>

\* An integer that may be absent is a sequence of at most one integer.
Absent == <<>>

Min(a, b) == IF a <= b THEN a ELSE b

(***************************************************************************)
(* str methods used by the program.                                        *)
(***************************************************************************)
\* The characters str.strip() removes that the model's lines contain.
Whitespace == {" ", "\t", "\n", "\r"}

\* line.strip(): drop leading and trailing whitespace.
Strip(line) ==
  IF \A i \in 1..Len(line) : line[i] \in Whitespace THEN <<>>
  ELSE LET first == CHOOSE i \in 1..Len(line) :
                      line[i] \notin Whitespace /\ \A j \in 1..(i - 1) : line[j] \in Whitespace
           last  == CHOOSE i \in 1..Len(line) :
                      line[i] \notin Whitespace /\ \A j \in (i + 1)..Len(line) : line[j] \in Whitespace
       IN  SubSeq(line, first, last)

\* line.startswith('>')
StartsWithMarker(line) == Len(line) >= 1 /\ line[1] = ">"

\* s[i:i+len(sub)] == sub, for a 1-based position i.
MatchAt(s, i, sub) ==
  /\ i >= 1
  /\ i + Len(sub) - 1 <= Len(s)
  /\ \A k \in 1..Len(sub) : s[i + k - 1] = sub[k]

\* s.find(sub, start): the leftmost position >= start where sub occurs, 0 if none.
Find(s, sub, start) ==
  LET hits == {i \in start..(Len(s) - Len(sub) + 1) : MatchAt(s, i, sub)}
  IN  IF hits = {} THEN 0 ELSE CHOOSE i \in hits : \A j \in hits : i <= j

RECURSIVE ReplaceFrom(_, _, _, _)
ReplaceFrom(s, old, new, start) ==
  LET i == Find(s, old, start)
  IN  IF i = 0 THEN SubSeq(s, start, Len(s))
      ELSE SubSeq(s, start, i - 1) \o new \o ReplaceFrom(s, old, new, i + Len(old))

\* A faulty Replace: only the first occurrence is replaced.
ReplaceFirstOnly(s, old, new) ==
  LET i == Find(s, old, 1)
  IN  IF i = 0 THEN s
      ELSE SubSeq(s, 1, i - 1) \o new \o SubSeq(s, i + Len(old), Len(s))

\* s.replace(old, new) for a non-empty old: every non-overlapping occurrence,
\* scanning left to right.
Replace(s, old, new) == ReplaceFrom(s, old, new, 1)

\* range(start, stop, step) as a list.
RECURSIVE Range(_, _, _)
Range(start, stop, step) ==
  IF start >= stop THEN <<>> ELSE <<start>> \o Range(start + step, stop, step)

\* sep.join(parts)
RECURSIVE Join(_, _)
Join(parts, sep) ==
  IF parts = <<>> THEN <<>>
  ELSE IF Len(parts) = 1 THEN parts[1]
  ELSE parts[1] \o sep \o Join(Tail(parts), sep)

(***************************************************************************)
(* wrap_sequence                                                           *)
(***************************************************************************)
\* A faulty WrapChunks: each slice is one character short.
WrapChunksShort(sequence, width) ==
  LET starts == Range(0, Len(sequence), width)
  IN  [k \in 1..Len(starts) |->
         SubSeq(sequence, starts[k] + 1, Min(starts[k] + width - 1, Len(sequence)))]

\* The generator of wrap_sequence: sequence[i:i+width] for i in range(0, len, width).
WrapChunks(sequence, width) ==
  LET starts == Range(0, Len(sequence), width)
  IN  [k \in 1..Len(starts) |->
         SubSeq(sequence, starts[k] + 1, Min(starts[k] + width, Len(sequence)))]

\* A faulty wrap_sequence: only the first line is returned.
WrapSequenceFirstLine(sequence, width) == SubSeq(sequence, 1, Min(width, Len(sequence)))

wrap_sequence(sequence, width) == Join(WrapChunks(sequence, width), <<"\n">>)

(***************************************************************************)
(* The input: every line of the file is one of these raw lines.            *)
(***************************************************************************)
\* The eGFP sequence split over two body lines, the second one indented.
EgfpHead == SubSeq(egfp_sequence, 1, 79)
EgfpTail == SubSeq(egfp_sequence, 80, Len(egfp_sequence))

InputLines ==
  << <<">", "s", "1", "\n">>,
     <<" ", ">", "s", "2", " ", "\n">>,
     <<" ", "\n">>,
     EgfpHead \o <<"\n">>,
     <<" ">> \o EgfpTail \o <<"\n">>,
     <<"C", ">", "T", "\n">>,
     mcherry_sequence \o egfp_sequence \o <<"\n">> >>

\* The values of -w/--width that main parses: the default and another one.
ArgWidths == {80, 60}

VARIABLES
  pc,               \* where the run is: main, preflight, process_fasta, loop, done, exit
  input_exists,     \* whether the input path names an existing file
  args_width,       \* <<args.width>> in main; Absent when process_fasta is called directly
  out_opened,       \* whether the output file was opened for writing (created or truncated)
  exit_code,        \* Absent while running, <<0>> or <<1>> once the run has ended
  infile,           \* the raw lines read so far, as indices into InputLines
  current_header,
  current_sequence,
  sequence_count,
  outfile,          \* the characters written to the output file
  finalized,        \* history: one entry per record written
  wrap_call         \* the call of wrap_sequence made on its own, if any: arguments and result

vars == <<pc, input_exists, args_width, out_opened, exit_code, infile,
          current_header, current_sequence, sequence_count, outfile,
          finalized, wrap_call>>

\* The state of process_fasta's locals and of the output file.
transducer == <<current_header, current_sequence, sequence_count, outfile, finalized>>

\* A call of process_fasta(input_file, output_file).
Init ==
  /\ pc = "process_fasta"
  /\ input_exists \in BOOLEAN
  /\ args_width = Absent
  /\ out_opened = FALSE
  /\ exit_code = Absent
  /\ infile = <<>>
  /\ current_header = None
  /\ current_sequence = <<>>
  /\ sequence_count = 0
  /\ outfile = <<>>
  /\ finalized = <<>>
  /\ wrap_call = <<>>

\* A run from the command line, or a call of process_fasta.
InitMain ==
  /\ pc \in {"main", "process_fasta"}
  /\ input_exists \in BOOLEAN
  /\ args_width = Absent
  /\ out_opened = FALSE
  /\ exit_code = Absent
  /\ infile = <<>>
  /\ current_header = None
  /\ current_sequence = <<>>
  /\ sequence_count = 0
  /\ outfile = <<>>
  /\ finalized = <<>>
  /\ wrap_call = <<>>

(***************************************************************************)
(* main                                                                    *)
(***************************************************************************)
\* parser.parse_args(): -w/--width is parsed into args.width.
ParseArgs ==
  /\ pc = "main"
  /\ \E w \in ArgWidths : args_width' = <<w>>
  /\ pc' = "preflight"
  /\ UNCHANGED <<input_exists, out_opened, exit_code, infile, transducer, wrap_call>>

\* The pre-flight existence check, then the call of process_fasta.
Preflight ==
  /\ pc = "preflight"
  /\ IF input_exists
       THEN pc' = "process_fasta" /\ exit_code' = exit_code
       ELSE pc' = "exit" /\ exit_code' = <<1>>
  /\ UNCHANGED <<input_exists, args_width, out_opened, infile, transducer, wrap_call>>

\* The environment: the input path is removed after the pre-flight check.
InputVanishes ==
  /\ pc = "process_fasta"
  /\ args_width # Absent
  /\ input_exists
  /\ input_exists' = FALSE
  /\ UNCHANGED <<pc, args_width, out_opened, exit_code, infile, transducer, wrap_call>>

(***************************************************************************)
(* process_fasta                                                           *)
(***************************************************************************)
\* A faulty OpenFiles: the output file is opened before the input file.
OpenFilesOutputFirst ==
  /\ pc = "process_fasta"
  /\ \E writable \in BOOLEAN :
       IF ~writable
         THEN pc' = "exit" /\ exit_code' = <<1>> /\ out_opened' = out_opened
         ELSE /\ out_opened' = TRUE
              /\ IF input_exists
                   THEN pc' = "loop" /\ exit_code' = exit_code
                   ELSE pc' = "exit" /\ exit_code' = <<1>>
  /\ UNCHANGED <<input_exists, args_width, infile, transducer, wrap_call>>

\* with open(input_file, 'r') as infile, open(output_file, 'w') as outfile:
\* the input is opened first; FileNotFoundError and IOError end the run with 1.
OpenFiles ==
  /\ pc = "process_fasta"
  /\ IF ~input_exists
       THEN /\ pc' = "exit"
            /\ exit_code' = <<1>>
            /\ out_opened' = out_opened
       ELSE \E writable \in BOOLEAN :
              IF writable
                THEN pc' = "loop" /\ exit_code' = exit_code /\ out_opened' = TRUE
                ELSE pc' = "exit" /\ exit_code' = <<1>> /\ out_opened' = out_opened
  /\ UNCHANGED <<input_exists, args_width, infile, transducer, wrap_call>>

\* A faulty WriteRecord: the sequence is written even when it is empty.
WriteRecordUnguarded(out, header, sequence, width) ==
  out \o header \o <<"\n">> \o wrap_sequence(sequence, width) \o <<"\n">>

\* The writes of one record: the header line, then the wrapped sequence if any.
WriteRecord(out, header, sequence, width) ==
  LET withHeader == out \o header \o <<"\n">>
  IN  IF sequence # <<>>
        THEN withHeader \o wrap_sequence(sequence, width) \o <<"\n">>
        ELSE withHeader

\* The history entry of a record written from the current state: the sequence
\* accumulated for it and the part of the output file its writes fill.
Entry(written) ==
  [accumulated |-> current_sequence, start |-> Len(outfile), end |-> Len(written)]

\* A faulty FinalizeInLoop: the record is written but not counted.
FinalizeInLoopUncounted ==
  LET substituted == Replace(current_sequence, egfp_sequence, mcherry_sequence)
      written == WriteRecord(outfile, current_header, substituted, 80)
  IN  /\ outfile' = written
      /\ sequence_count' = sequence_count
      /\ finalized' = Append(finalized, Entry(written))

\* Processing of the previous record when a header line arrives.
FinalizeInLoop ==
  LET substituted == Replace(current_sequence, egfp_sequence, mcherry_sequence)
      written == WriteRecord(outfile, current_header, substituted, 80)
  IN  /\ outfile' = written
      /\ sequence_count' = sequence_count + 1
      /\ finalized' = Append(finalized, Entry(written))

\* A faulty FinalizeLast: the last record is not processed.
FinalizeLastSkipped == UNCHANGED <<outfile, sequence_count, finalized, current_sequence>>

\* Processing of the last record after the loop.
FinalizeLast ==
  LET substituted == Replace(current_sequence, egfp_sequence, mcherry_sequence)
      written == WriteRecord(outfile, current_header, substituted, 100)
  IN  /\ outfile' = written
      /\ sequence_count' = sequence_count + 1
      /\ finalized' = Append(finalized, Entry(written))
      /\ current_sequence' = substituted

\* A faulty AppendLine: the line keeps its newline.
AppendLineUnstripped(sequence, line) == sequence \o line \o <<"\n">>

\* current_sequence += line
AppendLine(sequence, line) == sequence \o line

\* A faulty NewSequence: the accumulated sequence is kept.
NewSequenceKept(sequence) == sequence

\* current_sequence = "" when a new record starts.
NewSequence(sequence) == <<>>

\* One iteration of "for line in infile".
ReadLine ==
  /\ pc = "loop"
  /\ Len(infile) < MaxLines
  /\ \E k \in 1..Len(InputLines) :
       LET line == Strip(InputLines[k])
       IN  /\ infile' = Append(infile, k)
           /\ IF StartsWithMarker(line)
                THEN /\ IF current_header # None
                          THEN FinalizeInLoop
                          ELSE UNCHANGED <<outfile, sequence_count, finalized>>
                     /\ current_header' = line
                     /\ current_sequence' = NewSequence(current_sequence)
                ELSE IF line # <<>>
                  THEN /\ current_sequence' = AppendLine(current_sequence, line)
                       /\ UNCHANGED <<current_header, outfile, sequence_count, finalized>>
                  ELSE UNCHANGED transducer
  /\ UNCHANGED <<pc, input_exists, args_width, out_opened, exit_code, wrap_call>>

\* The end of the input: the last record is processed and the run reports its count.
EndOfInput ==
  /\ pc = "loop"
  /\ IF current_header # None
       THEN FinalizeLast /\ UNCHANGED current_header
       ELSE UNCHANGED transducer
  /\ pc' = "done"
  /\ exit_code' = <<0>>
  /\ UNCHANGED <<input_exists, args_width, out_opened, infile, wrap_call>>

\* process_fasta.
Next ==
  \/ OpenFiles
  \/ ReadLine
  \/ EndOfInput

Spec == Init /\ [][Next]_vars

\* main, the environment of its pre-flight check, and process_fasta.
NextMain ==
  \/ ParseArgs
  \/ Preflight
  \/ InputVanishes
  \/ OpenFiles
  \/ ReadLine
  \/ EndOfInput

SpecMain == InitMain /\ [][NextMain]_vars

(***************************************************************************)
(* wrap_sequence on its own, over every short string and small width.      *)
(***************************************************************************)
WrapAlphabet == {"A", "C", ">"}
WrapInputs == UNION {[1..n -> WrapAlphabet] : n \in 0..MaxWrapLen}

InitWrap ==
  /\ pc = "wrap_sequence"
  /\ input_exists = TRUE
  /\ args_width = Absent
  /\ out_opened = FALSE
  /\ exit_code = Absent
  /\ infile = <<>>
  /\ current_header = None
  /\ current_sequence = <<>>
  /\ sequence_count = 0
  /\ outfile = <<>>
  /\ finalized = <<>>
  /\ wrap_call = <<>>

CallWrap ==
  /\ pc = "wrap_sequence"
  /\ wrap_call = <<>>
  /\ \E s \in WrapInputs, w \in 1..MaxWrapWidth :
       wrap_call' = <<[sequence |-> s, width |-> w, result |-> wrap_sequence(s, w)]>>
  /\ UNCHANGED <<pc, input_exists, args_width, out_opened, exit_code, infile, transducer>>

NextWrap == CallWrap

SpecWrap == InitWrap /\ [][NextWrap]_vars


(***************************************************************************)
(* What the input says, read off the lines consumed so far, independently  *)
(* of the transducer's variables.                                          *)
(***************************************************************************)
StrippedInput == [k \in 1..Len(InputLines) |-> Strip(InputLines[k])]

\* The stripped i-th line read.
LineRead(i) == StrippedInput[infile[i]]

HeaderPositions == {i \in 1..Len(infile) : StartsWithMarker(LineRead(i))}
NumHeaders == Cardinality(HeaderPositions)

\* The position in the input of the r-th header line.
HeaderPos(r) ==
  CHOOSE i \in HeaderPositions : Cardinality({j \in HeaderPositions : j < i}) = r - 1

\* The last line read that belongs to the r-th record.
LastLineOf(r) == IF r < NumHeaders THEN HeaderPos(r + 1) - 1 ELSE Len(infile)

RECURSIVE ConcatLines(_, _)
ConcatLines(from, to) ==
  IF from > to THEN <<>> ELSE LineRead(from) \o ConcatLines(from + 1, to)

\* The r-th record's body lines, stripped and concatenated.
BodyOf(r) == ConcatLines(HeaderPos(r) + 1, LastLineOf(r))

\* The input has no body or orphan line holding the marker character.
NoMarkerInBodies ==
  \A i \in 1..Len(infile) :
    i \in HeaderPositions \/ \A k \in 1..Len(LineRead(i)) : LineRead(i)[k] # ">"

(***************************************************************************)
(* What the output says, read off the characters written.                  *)
(***************************************************************************)
\* text.split("\n"), from position from on.
RECURSIVE SplitFrom(_, _)
SplitFrom(text, from) ==
  IF \A i \in from..Len(text) : text[i] # "\n"
    THEN <<SubSeq(text, from, Len(text))>>
    ELSE LET nl == CHOOSE i \in from..Len(text) :
                     text[i] = "\n" /\ \A j \in from..(i - 1) : text[j] # "\n"
         IN  <<SubSeq(text, from, nl - 1)>> \o SplitFrom(text, nl + 1)

\* The lines of a text in which every line is ended by "\n".
FileLines(text) ==
  IF text = <<>> THEN <<>>
  ELSE IF text[Len(text)] = "\n" THEN SplitFrom(SubSeq(text, 1, Len(text) - 1), 1)
  ELSE SplitFrom(text, 1)

RECURSIVE Concat(_)
Concat(lines) == IF lines = <<>> THEN <<>> ELSE lines[1] \o Concat(Tail(lines))

\* The output lines of the r-th record written; the first is its header line.
OutputLinesOf(r) == FileLines(SubSeq(outfile, finalized[r].start + 1, finalized[r].end))
SequenceLinesOf(r) == Tail(OutputLinesOf(r))
OutputSequenceOf(r) == Concat(SequenceLinesOf(r))

Occurs(sub, s) == \E i \in 1..(Len(s) - Len(sub) + 1) : MatchAt(s, i, sub)
CountOccurrences(sub, s) ==
  Cardinality({i \in 1..(Len(s) - Len(sub) + 1) : MatchAt(s, i, sub)})

\* The number of matches a left-to-right scan for non-overlapping occurrences finds.
RECURSIVE ScanCount(_, _, _)
ScanCount(s, sub, from) ==
  IF \A i \in from..(Len(s) - Len(sub) + 1) : ~MatchAt(s, i, sub) THEN 0
  ELSE LET m == CHOOSE i \in from..(Len(s) - Len(sub) + 1) :
                  MatchAt(s, i, sub) /\ \A j \in from..(i - 1) : ~MatchAt(s, j, sub)
       IN  1 + ScanCount(s, sub, m + Len(sub))

InTransducer == pc \in {"loop", "done"}

\* The output is the records' writes, one after the other, with nothing in between.
WritesContiguous ==
  /\ \A r \in 1..Len(finalized) :
       finalized[r].start = (IF r = 1 THEN 0 ELSE finalized[r - 1].end)
  /\ Len(outfile) = (IF finalized = <<>> THEN 0 ELSE finalized[Len(finalized)].end)


(***************************************************************************)
(* C1: every record is finalized exactly once, a non-final one when the    *)
(* next header arrives and the final one at the end of the input, so the   *)
(* output holds exactly as many header lines as the input.                 *)
(***************************************************************************)
\* The output lines that begin with the marker character.
OutputHeaderLines ==
  LET lines == FileLines(outfile)
  IN  {i \in 1..Len(lines) : StartsWithMarker(lines[i])}

\* One entry per record, in input order, each starting with its own header line:
\* all headers but the open one while reading, all of them at the end.
FinalizedExactlyOnce ==
  /\ pc = "loop" => Len(finalized) = (IF NumHeaders = 0 THEN 0 ELSE NumHeaders - 1)
  /\ pc = "done" => Len(finalized) = NumHeaders
  /\ WritesContiguous
  /\ \A r \in 1..Len(finalized) : OutputLinesOf(r)[1] = LineRead(HeaderPos(r))

\* C1 as stated: at the end the output has as many header lines as the input.
C1_OutputHeaderCount ==
  InTransducer =>
    /\ FinalizedExactlyOnce
    /\ pc = "done" => Cardinality(OutputHeaderLines) = NumHeaders

\* C1 amended: the header-line counts agree when no body line holds the marker
\* character; in every case each record is written exactly once.
C1_FinalizedOnce ==
  InTransducer =>
    /\ FinalizedExactlyOnce
    /\ (pc = "done" /\ NoMarkerInBodies) => Cardinality(OutputHeaderLines) = NumHeaders

\* Two records written, the first when the second header arrived, the second
\* at the end of the input.
C1_Witness ==
  /\ pc = "done"
  /\ Len(finalized) = 2
  /\ finalized[1].accumulated # <<>>
  /\ finalized[2].accumulated # <<>>

(***************************************************************************)
(* C2: every sequence line written is wrapped at 80 columns, for every     *)
(* record including the last, whatever the value of -w/--width.            *)
(***************************************************************************)
WrappedAt(lines, width) ==
  /\ \A k \in 1..(Len(lines) - 1) : Len(lines[k]) = width
  /\ lines # <<>> => Len(lines[Len(lines)]) \in 1..width

\* C2: the sequence lines of every record written are wrapped at 80 columns.
C2_WrappedAt80 ==
  \A r \in 1..Len(finalized) : WrappedAt(SequenceLinesOf(r), 80)

(***************************************************************************)
(* C3: the reported sequence_count is the number of header lines of the    *)
(* input, and at every point it is the number of records finalized so far. *)
(***************************************************************************)
C3_CountAccuracy ==
  /\ sequence_count = Len(finalized)
  /\ pc = "loop" => sequence_count = (IF NumHeaders = 0 THEN 0 ELSE NumHeaders - 1)
  /\ pc = "done" => sequence_count = NumHeaders

C3_Witness == pc = "done" /\ sequence_count = 3 /\ exit_code = <<0>>

(***************************************************************************)
(* C4: after finalization the output sequence holds no occurrence of the   *)
(* eGFP sequence, and the mCherry occurrences introduced are as many as    *)
(* the non-overlapping matches of a left-to-right scan.                    *)
(***************************************************************************)
C4_SubstitutionComplete ==
  \A r \in 1..Len(finalized) :
    LET before == finalized[r].accumulated
        after == OutputSequenceOf(r)
    IN  /\ ~Occurs(egfp_sequence, after)
        /\ CountOccurrences(mcherry_sequence, after)
             = CountOccurrences(mcherry_sequence, before)
               + ScanCount(before, egfp_sequence, 1)

\* A record whose sequence held eGFP twice, once merged from two lines, and
\* held mCherry already.
C4_Witness ==
  \E r \in 1..Len(finalized) :
    /\ ScanCount(finalized[r].accumulated, egfp_sequence, 1) = 2
    /\ Occurs(mcherry_sequence, finalized[r].accumulated)
    /\ Len(infile) >= HeaderPos(r) + 3
    /\ LineRead(HeaderPos(r) + 1) \o LineRead(HeaderPos(r) + 2) = egfp_sequence

(***************************************************************************)
(* C5: the lines of wrap_sequence(s, w), w >= 1, concatenate to s, all but *)
(* the last have length w, the last has length 1..w, there are             *)
(* ceil(len(s)/w) of them, and none at all for the empty string.           *)
(***************************************************************************)
C5_WrapInvariant ==
  \A c \in 1..Len(wrap_call) :
    LET s == wrap_call[c].sequence
        w == wrap_call[c].width
        lines == SplitFrom(wrap_call[c].result, 1)
    IN  IF s = <<>>
          THEN wrap_call[c].result = <<>> /\ WrapChunks(s, w) = <<>>
          ELSE /\ Concat(lines) = s
               /\ WrappedAt(lines, w)
               /\ Len(lines) = (Len(s) + w - 1) \div w
               /\ lines = WrapChunks(s, w)

\* A call whose last line is shorter than the others.
C5_Witness ==
  \E c \in 1..Len(wrap_call) :
    /\ Len(wrap_call[c].sequence) = 4
    /\ wrap_call[c].width = 3

(***************************************************************************)
(* C6: for a record whose sequence holds no eGFP occurrence, the sequence  *)
(* lines written, concatenated, are the record's stripped body lines       *)
(* concatenated, in the loop and at the end of the input alike.            *)
(***************************************************************************)
C6_RoundTrip ==
  InTransducer =>
    \A r \in 1..Len(finalized) :
      ~Occurs(egfp_sequence, BodyOf(r)) => OutputSequenceOf(r) = BodyOf(r)

\* Two records free of eGFP and longer than a line, one written in the loop
\* and one at the end.
C6_Witness ==
  /\ pc = "done"
  /\ Len(finalized) = 2
  /\ \A r \in 1..2 : ~Occurs(egfp_sequence, BodyOf(r)) /\ Len(BodyOf(r)) > 100

(***************************************************************************)
(* C7: a header followed, with at most blank lines in between, by another  *)
(* header or the end of the input gives exactly one output line, the       *)
(* stripped header, and no sequence line.                                  *)
(***************************************************************************)
C7_EmptyRecord ==
  InTransducer =>
    \A r \in 1..Len(finalized) :
      BodyOf(r) = <<>> =>
        SubSeq(outfile, finalized[r].start + 1, finalized[r].end)
          = LineRead(HeaderPos(r)) \o <<"\n">>

\* An empty record before another header, with a blank line in between, and an
\* empty record at the end of the input.
C7_Witness ==
  /\ pc = "done"
  /\ Len(finalized) = 2
  /\ BodyOf(1) = <<>> /\ HeaderPos(2) > HeaderPos(1) + 1
  /\ BodyOf(2) = <<>>

(***************************************************************************)
(* C8: the accumulated sequence of the open record is the concatenation,   *)
(* with no separator, of the stripped non-empty non-header lines since its *)
(* header; an empty line changes nothing; a new header resets it, so each  *)
(* record is written from its own body lines only.                         *)
(***************************************************************************)
C8_Accumulated ==
  /\ (pc = "loop" /\ current_header # None) =>
       /\ current_header = LineRead(HeaderPos(NumHeaders))
       /\ current_sequence = BodyOf(NumHeaders)
  /\ InTransducer =>
       \A r \in 1..Len(finalized) : finalized[r].accumulated = BodyOf(r)

\* Reading an empty line leaves the transducer as it is.
C8_BlankStep ==
  (pc = "loop" /\ infile' # infile /\ StrippedInput[infile'[Len(infile')]] = <<>>)
    => UNCHANGED transducer

\* C8: the accumulated sequence is the merge of the record's own body lines in
\* every state, and every step that reads an empty line changes nothing.
C8_MultiLineMerge == []C8_Accumulated /\ [][C8_BlankStep]_vars

\* The eGFP sequence merged from two body lines with an empty line between them.
C8_Witness ==
  /\ pc = "loop"
  /\ NumHeaders = 1
  /\ Len(infile) = HeaderPos(1) + 3
  /\ LineRead(HeaderPos(1) + 2) = <<>>
  /\ current_sequence = egfp_sequence

(***************************************************************************)
(* C9: when the input path does not exist the run ends with exit code 1    *)
(* and the output file is never opened and nothing is written, from main   *)
(* and from a direct call of process_fasta.                                *)
(***************************************************************************)
C9_InputNotFound ==
  ~input_exists =>
    /\ pc \in {"main", "preflight", "process_fasta", "exit"}
    /\ out_opened = FALSE
    /\ outfile = <<>>
    /\ sequence_count = 0
    /\ pc = "exit" => exit_code = <<1>>
    /\ pc # "exit" => ENABLED NextMain

\* The run has ended on a missing input, from a direct call of process_fasta.
C9_Witness == ~input_exists /\ pc = "exit" /\ args_width = Absent

(***************************************************************************)
(* C10: lines before the first header contribute nothing to the output,    *)
(* and an input with no header gives an empty output and a count of 0.     *)
(***************************************************************************)
C10_OrphanLinesIgnored ==
  InTransducer =>
    /\ NumHeaders = 0 => outfile = <<>> /\ finalized = <<>> /\ sequence_count = 0
    /\ (pc = "loop" /\ NumHeaders = 1) =>
         outfile = <<>> /\ current_sequence = BodyOf(1)
    /\ finalized # <<>> =>
         /\ finalized[1].start = 0
         /\ OutputLinesOf(1)[1] = LineRead(HeaderPos(1))
         /\ finalized[1].accumulated = BodyOf(1)

\* A non-empty line read before the first header, whose record was then written
\* with a body of its own.
C10_Witness ==
  /\ pc = "done"
  /\ NumHeaders = 1
  /\ HeaderPos(1) = 2
  /\ LineRead(1) # <<>>
  /\ Len(finalized) = 1
  /\ finalized[1].accumulated # <<>>

=============================================================================
